---- MODULE Spec2Model ----
(***************************************************************************)
(* Crossword filling as a constraint-satisfaction search.                  *)
(*                                                                         *)
(* The repository holds two variants of the solver class CrosswordCreator: *)
(*   "fc"  - src/unnamed/part_000: backtracking with forward checking, the *)
(*           domains taken from Crossword.words (Map length -> Set);       *)
(*   "ac3" - src/CrosswordCreator.ts: an arc-consistency pass followed by  *)
(*           plain backtracking, the domains filtered from a flat          *)
(*           collection of words.                                          *)
(* Both run over the grid model of src/Crossword.ts.                       *)
(*                                                                         *)
(* A word is a sequence of one-character strings; JavaScript's 0-based     *)
(* string index w[i] is CharAt(w, i). A Set is the sequence of its members *)
(* in insertion order (the order JavaScript iterates it in). A variable is *)
(* named by its position in Crossword.variables (insertion order).         *)
(* The diagnostic log `steps` is write-only and is left out.               *)
(***************************************************************************)
EXTENDS Integers, Sequences, FiniteSets, TLC

VARIABLES
    structure,        \* Crossword.structure: rows of fillable flags
    file,             \* the lines of the words file, as read
    variant,          \* "fc" or "ac3": which CrosswordCreator runs
    pc,               \* "new", "ready", "ac3", "call", "loop", "done"
    variables,        \* Crossword.variables, in insertion order
    overlaps,         \* Crossword.overlaps
    words,            \* Crossword.words
    domains,          \* CrosswordCreator.domains
    variableDegrees,  \* CrosswordCreator.variableDegrees (fc)
    assignment,       \* the Map handed down the recursion of backtrack
    stack,            \* the active calls of backtrack, outermost first
    queue,            \* the work list of ac3
    result,           \* what the running or last solve() returned
    previous,         \* what the solve() before it returned
    solves            \* number of solve() calls started

vars == <<structure, file, variant, pc, variables, overlaps, words, domains,
          variableDegrees, assignment, stack, queue, result, previous, solves>>

(***************************************************************************)
(* Bounds and input sets                                                   *)
(***************************************************************************)
MaxWords == 3

MaxSolves == 2

T == TRUE

F == FALSE

\* 1x2 strip; L shape; full 2x2 block; T shape with slots of length 3 and 2;
\* two disjoint strips; a grid without any slot; a staircase of three slots
\* of length 2, the middle one crossing the other two.
Structures ==
    { << <<T, T>> >>,
      << <<T, T>>, <<F, T>> >>,
      << <<T, T>>, <<T, T>> >>,
      << <<T, T, T>>, <<F, T, F>> >>,
      << <<T, T>>, <<F, F>>, <<T, T>> >>,
      << <<T, F>>, <<F, T>> >>,
      << <<T, T, F>>, <<F, T, T>> >> }

FileWords ==
    { <<"A", "A">>, <<"C", "A">>, <<"c", "a">>, <<"B", "C">>,
      <<"A", "B", "A">>, <<"b", "a", "b">> }

RECURSIVE SeqsUpTo(_, _)
SeqsUpTo(S, n) ==
    IF n = 0 THEN { <<>> }
    ELSE LET shorter == SeqsUpTo(S, n - 1)
         IN  shorter \cup { Append(s, x) : s \in shorter, x \in S }

\* the words file as its lines; empty lines are left out, they only make
\* an entry for length 0, which no variable has
Files == SeqsUpTo(FileWords, MaxWords)

Variants == {"fc", "ac3"}

(***************************************************************************)
(* Values of the JavaScript run time                                       *)
(***************************************************************************)
Undefined == "undefined"

Null == <<>>

EmptyMap == [x \in {} |-> x]

SeqToSet(s) == { s[k] : k \in DOMAIN s }

\* Set.prototype.has
Has(set, x) == \E k \in DOMAIN set : set[k] = x

\* Set.prototype.add: a new member goes last, a present one changes nothing
Add(set, x) == IF Has(set, x) THEN set ELSE Append(set, x)

\* a delete that leaves a placeholder entry behind instead of removing
DeleteAllLeavesMark(set, S) ==
    IF S = {} THEN set ELSE Append(set, <<>>)

\* Set.prototype.delete of each member of S
DeleteAll(set, S) == SelectSeq(set, LAMBDA x : x \notin S)

\* str[i] for a 0-based index: undefined past the end
CharAt(word, i) == IF i < Len(word) THEN word[i + 1] ELSE Undefined

ToUpperChar(c) ==
    CASE c = "a" -> "A"
      [] c = "b" -> "B"
      [] c = "c" -> "C"
      [] c = "m" -> "M"
      [] c = "r" -> "R"
      [] c = "t" -> "T"
      [] OTHER   -> c

\* String.prototype.toUpperCase
ToUpperCase(word) == [k \in DOMAIN word |-> ToUpperChar(word[k])]

(***************************************************************************)
(* Crossword: the grid model                                               *)
(***************************************************************************)
Height(s) == Len(s)

Width(s) == IF Len(s) = 0 THEN 0 ELSE Len(s[1])

\* structure[i][j], 0-based
Fillable(s, i, j) == s[i + 1][j + 1]

\* new Set(word): a string is iterated character by character, so the Set
\* holds the distinct characters of the word, each a one-character string
RECURSIVE CharSet(_)
CharSet(word) ==
    IF word = <<>> THEN <<>>
    ELSE Add(CharSet(SubSeq(word, 1, Len(word) - 1)), << word[Len(word)] >>)

\* the callback of loadWords, applied to one upper-cased line
AddWord(mapWords, word) ==
    IF Len(word) \in DOMAIN mapWords
    THEN [mapWords EXCEPT ![Len(word)] = Add(@, word)]
    ELSE (Len(word) :> CharSet(word)) @@ mapWords

RECURSIVE LoadWords(_)
LoadWords(lines) ==
    IF lines = <<>> THEN EmptyMap
    ELSE AddWord(LoadWords(SubSeq(lines, 1, Len(lines) - 1)),
                 ToUpperCase(lines[Len(lines)]))

\* CrosswordVariable: (i, j, direction, length)
Variable(i, j, direction, length) ==
    [i |-> i, j |-> j, direction |-> direction, length |-> length]

\* CrosswordVariable.cells, cell k for the 0-based k
Cell(v, k) ==
    << v.i + (IF v.direction = "down" THEN k ELSE 0),
       v.j + (IF v.direction = "across" THEN k ELSE 0) >>

DownLength(s, i, j) ==
    1 + Cardinality({ k \in (i + 1)..(Height(s) - 1) :
                        \A m \in (i + 1)..k : Fillable(s, m, j) })

AcrossLength(s, i, j) ==
    1 + Cardinality({ k \in (j + 1)..(Width(s) - 1) :
                        \A m \in (j + 1)..k : Fillable(s, i, m) })

\* a findVariables that starts a run at every fillable cell, whatever the
\* cell above or left of it
VariablesAtAnyStart(s, i, j) ==
    (IF Fillable(s, i, j) /\ DownLength(s, i, j) > 1
     THEN << Variable(i, j, "down", DownLength(s, i, j)) >>
     ELSE <<>>)
    \o
    (IF Fillable(s, i, j) /\ AcrossLength(s, i, j) > 1
     THEN << Variable(i, j, "across", AcrossLength(s, i, j)) >>
     ELSE <<>>)

\* the body of the two loops of findVariables for the cell (i, j)
VariablesAt(s, i, j) ==
    (IF /\ Fillable(s, i, j)
        /\ (i = 0 \/ ~Fillable(s, i - 1, j))
        /\ DownLength(s, i, j) > 1
     THEN << Variable(i, j, "down", DownLength(s, i, j)) >>
     ELSE <<>>)
    \o
    (IF /\ Fillable(s, i, j)
        /\ (j = 0 \/ ~Fillable(s, i, j - 1))
        /\ AcrossLength(s, i, j) > 1
     THEN << Variable(i, j, "across", AcrossLength(s, i, j)) >>
     ELSE <<>>)

\* the variables found in the first n cells, in row-major order
RECURSIVE FindVariablesUpTo(_, _)
FindVariablesUpTo(s, n) ==
    IF n = 0 THEN <<>>
    ELSE FindVariablesUpTo(s, n - 1)
         \o VariablesAt(s, (n - 1) \div Width(s), (n - 1) % Width(s))

FindVariables(s) == FindVariablesUpTo(s, Height(s) * Width(s))

\* a getOverlap that returns the two indices in the other order
GetOverlapSwapped(v1, v2) ==
    LET common == { p \in (0..(v1.length - 1)) \X (0..(v2.length - 1)) :
                      Cell(v1, p[1]) = Cell(v2, p[2]) }
    IN  IF common = {} THEN Null
        ELSE LET first == CHOOSE p \in common :
                            \A q \in common :
                                p[1] < q[1] \/ (p[1] = q[1] /\ p[2] <= q[2])
             IN  <<first[2], first[1]>>

\* the first common cell, scanning v1's cells and then v2's
GetOverlap(v1, v2) ==
    LET common == { p \in (0..(v1.length - 1)) \X (0..(v2.length - 1)) :
                      Cell(v1, p[1]) = Cell(v2, p[2]) }
    IN  IF common = {} THEN Null
        ELSE CHOOSE p \in common :
                \A q \in common :
                    p[1] < q[1] \/ (p[1] = q[1] /\ p[2] <= q[2])

ComputeOverlaps(vs) ==
    [p \in { q \in (DOMAIN vs) \X (DOMAIN vs) : q[1] # q[2] } |->
        GetOverlap(vs[p[1]], vs[p[2]])]

\* Crossword.neighbors over a given overlap table
NeighborsIn(ovl, n, x) ==
    SelectSeq([k \in 1..n |-> k], LAMBDA v : v # x /\ ovl[<<x, v>>] # Null)

Neighbors(x) == NeighborsIn(overlaps, Len(variables), x)

\* The flat collection of words the "ac3" constructor iterates:
\* upper-cased, duplicates collapsed.
RECURSIVE WordList(_)
WordList(lines) ==
    IF lines = <<>> THEN <<>>
    ELSE Add(WordList(SubSeq(lines, 1, Len(lines) - 1)),
             ToUpperCase(lines[Len(lines)]))

(***************************************************************************)
(* CrosswordCreator: construction                                          *)
(***************************************************************************)
\* "fc": domains.set(variable.id, words.get(variable.length)) stores the Set
\* object of the Map itself, so a domain is the key of that Set in `words`;
\* a length without words leaves the variable without an entry.
DomainsFC(vs, mapWords) ==
    [v \in { u \in DOMAIN vs : vs[u].length \in DOMAIN mapWords } |->
        vs[v].length]

\* "ac3": each variable gets a Set of its own
DomainsAC3(vs, wordList) ==
    [v \in DOMAIN vs |->
        SelectSeq(wordList, LAMBDA word : Len(word) = vs[v].length)]

DegreesFC(vs, ovl) ==
    [v \in DOMAIN vs |-> Len(NeighborsIn(ovl, Len(vs), v))]

\* this.domains.get(v) over a given state of the Sets
DomainIn(w, d, v) == IF variant = "fc" THEN w[d[v]] ELSE d[v]

Domain(v) == DomainIn(words, domains, v)

\* the content of every domain: what the domain store holds
DomainStore == [v \in DOMAIN domains |-> Domain(v)]

(***************************************************************************)
(* CrosswordCreator: the search                                            *)
(***************************************************************************)
RECURSIVE SumSeq(_)
SumSeq(s) == IF s = <<>> THEN 0 ELSE s[1] + SumSeq(Tail(s))

\* Array.prototype.sort by a numeric key, ascending; the sort is stable
SortByKey(seq, key) ==
    LET Before(a, b) == key[a] < key[b] \/ (key[a] = key[b] /\ a < b)
        Rank(a) == 1 + Cardinality({ b \in DOMAIN seq : Before(b, a) })
    IN  [r \in DOMAIN seq |-> seq[CHOOSE a \in DOMAIN seq : Rank(a) = r]]

AssignmentComplete(asg) == Cardinality(DOMAIN asg) = Len(variables)

\* consistent without the length test
ConsistentNoLength(x, asg) ==
    LET value == asg[x]
    IN  /\ \A v \in DOMAIN asg : v # x => asg[v] # value
        /\ \A n \in SeqToSet(Neighbors(x)) :
              (n \in DOMAIN asg /\ asg[n] # <<>> /\ overlaps[<<x, n>>] # Null)
              => CharAt(value, overlaps[<<x, n>>][1])
                   = CharAt(asg[n], overlaps[<<x, n>>][2])

\* consistent without the test that no other variable holds the word
ConsistentNoUnique(x, asg) ==
    LET value == asg[x]
    IN  /\ Len(value) = variables[x].length
        /\ \A n \in SeqToSet(Neighbors(x)) :
              (n \in DOMAIN asg /\ asg[n] # <<>> /\ overlaps[<<x, n>>] # Null)
              => CharAt(value, overlaps[<<x, n>>][1])
                   = CharAt(asg[n], overlaps[<<x, n>>][2])

\* consistent without the comparison with the assigned neighbors
ConsistentNoOverlap(x, asg) ==
    LET value == asg[x]
    IN  /\ Len(value) = variables[x].length
        /\ \A v \in DOMAIN asg : v # x => asg[v] # value

\* consistent(variable, assignment), the variable already bound in asg
Consistent(x, asg) ==
    LET value == asg[x]
    IN  /\ Len(value) = variables[x].length
        /\ \A v \in DOMAIN asg : v # x => asg[v] # value
        /\ \A n \in SeqToSet(Neighbors(x)) :
              (n \in DOMAIN asg /\ asg[n] # <<>> /\ overlaps[<<x, n>>] # Null)
              => CharAt(value, overlaps[<<x, n>>][1])
                   = CharAt(asg[n], overlaps[<<x, n>>][2])

UnassignedNeighbors(x, asg) ==
    SelectSeq(Neighbors(x), LAMBDA n : n \notin DOMAIN asg)

\* neighborDomain.size - consistentValues for one neighbor n of x
Eliminated(x, value, n) ==
    LET ov == overlaps[<<x, n>>]
    IN  IF ov = Null THEN 0
        ELSE Cardinality({ k \in DOMAIN Domain(n) :
                             CharAt(value, ov[1]) # CharAt(Domain(n)[k], ov[2]) })

ConstraintCount(x, asg, value) ==
    LET un == UnassignedNeighbors(x, asg)
    IN  SumSeq([k \in DOMAIN un |-> Eliminated(x, value, un[k])])

\* an orderDomainValues that returns the values as it got them
OrderDomainValuesUnsorted(x, asg, domainValues) == domainValues

\* orderDomainValues: least constraining value first
OrderDomainValues(x, asg, domainValues) ==
    SortByKey(domainValues,
              [k \in DOMAIN domainValues |-> ConstraintCount(x, asg, domainValues[k])])

\* the degree the comparator of selectUnassignedVariable reads
Degree(v, asg) ==
    IF variant = "fc" THEN variableDegrees[v]
    ELSE Len(UnassignedNeighbors(v, asg))

\* a comparator that puts the variable of lower degree first
CompareDegreeAscending(a, b, asg) ==
    IF Len(Domain(a)) # Len(Domain(b))
    THEN Len(Domain(a)) - Len(Domain(b))
    ELSE Degree(a, asg) - Degree(b, asg)

\* the comparator of selectUnassignedVariable
Compare(a, b, asg) ==
    IF Len(Domain(a)) # Len(Domain(b))
    THEN Len(Domain(a)) - Len(Domain(b))
    ELSE Degree(b, asg) - Degree(a, asg)

\* selectUnassignedVariable: the head of the stably sorted unassigned ones
SelectUnassignedVariable(asg) ==
    LET un == { v \in DOMAIN variables : v \notin DOMAIN asg }
    IN  CHOOSE a \in un :
            \A b \in un : \/ Compare(a, b, asg) < 0
                          \/ (Compare(a, b, asg) = 0 /\ a <= b)

\* "fc": reading .size of, or iterating, a domain that was never set throws
SelectionThrows(asg) ==
    /\ variant = "fc"
    /\ \E v \in DOMAIN variables : v \notin DOMAIN asg /\ v \notin DOMAIN domains

\* forwardCheck from the k-th neighbor of x on, over the Sets w; the values
\* removed are noted in `inferences`, which nothing reads afterwards
RECURSIVE ForwardCheckFrom(_, _, _, _, _)
ForwardCheckFrom(k, x, value, asg, w) ==
    IF k > Len(Neighbors(x)) THEN [ok |-> TRUE, words |-> w]
    ELSE LET n == Neighbors(x)[k]
             ov == overlaps[<<x, n>>]
             neighborDomain == w[domains[n]]
             toRemove == { nv \in SeqToSet(neighborDomain) :
                             CharAt(value, ov[1]) # CharAt(nv, ov[2]) }
             pruned == [w EXCEPT ![domains[n]] = DeleteAll(@, toRemove)]
         IN  IF n \in DOMAIN asg \/ ov = Null \/ toRemove = {}
             THEN ForwardCheckFrom(k + 1, x, value, asg, w)
             ELSE IF pruned[domains[n]] = <<>>
                  THEN [ok |-> FALSE, words |-> pruned]
                  ELSE ForwardCheckFrom(k + 1, x, value, asg, pruned)

ForwardCheck(x, value, asg) ==
    IF variant = "fc" THEN ForwardCheckFrom(1, x, value, asg, words)
    ELSE [ok |-> TRUE, words |-> words]

(***************************************************************************)
(* CrosswordCreator: arc consistency ("ac3")                               *)
(***************************************************************************)
\* the arcs (x, neighbor) of variables k.. in the order ac3 pushes them
RECURSIVE ArcsFrom(_)
ArcsFrom(k) ==
    IF k > Len(variables) THEN <<>>
    ELSE [m \in DOMAIN Neighbors(k) |-> <<k, Neighbors(k)[m]>>] \o ArcsFrom(k + 1)

\* a revise that looks at the letter of index i in both words
UnsupportedSameIndex(x, y) ==
    LET ov == overlaps[<<x, y>>]
    IN  IF ov = Null THEN {}
        ELSE { valX \in SeqToSet(domains[x]) :
                 ~\E valY \in SeqToSet(domains[y]) :
                     CharAt(valX, ov[1]) = CharAt(valY, ov[1]) }

\* the values revise(x, y) removes from the domain of x
Unsupported(x, y) ==
    LET ov == overlaps[<<x, y>>]
    IN  IF ov = Null THEN {}
        ELSE { valX \in SeqToSet(domains[x]) :
                 ~\E valY \in SeqToSet(domains[y]) :
                     CharAt(valX, ov[1]) = CharAt(valY, ov[2]) }

\* an ac3 that pushes no arc after a revision
RequeueNone(x, y) == <<>>

\* the arcs (z, x) pushed after a revision of (x, y)
Requeue(x, y) ==
    LET zs == SelectSeq(Neighbors(x), LAMBDA z : z # y)
    IN  [m \in DOMAIN zs |-> <<zs[m], x>>]

(***************************************************************************)
(* Initial state and construction                                          *)
(***************************************************************************)
Init ==
    /\ structure \in Structures
    /\ file \in Files
    /\ variant \in Variants
    /\ pc = "new"
    /\ variables = <<>>
    /\ overlaps = EmptyMap
    /\ words = EmptyMap
    /\ domains = EmptyMap
    /\ variableDegrees = EmptyMap
    /\ assignment = EmptyMap
    /\ stack = <<>>
    /\ queue = <<>>
    /\ result = "none"
    /\ previous = "none"
    /\ solves = 0

\* new Crossword(...) followed by new CrosswordCreator(crossword)
Construct ==
    /\ pc = "new"
    /\ pc' = "ready"
    /\ variables' = FindVariables(structure)
    /\ overlaps' = ComputeOverlaps(variables')
    /\ words' = IF variant = "fc" THEN LoadWords(file) ELSE WordList(file)
    /\ domains' = IF variant = "fc" THEN DomainsFC(variables', words')
                  ELSE DomainsAC3(variables', words')
    /\ variableDegrees' = IF variant = "fc" THEN DegreesFC(variables', overlaps')
                          ELSE EmptyMap
    /\ UNCHANGED <<structure, file, variant, assignment, stack, queue,
                   result, previous, solves>>

\* solve(): a fresh assignment; "ac3" first runs the arc-consistency pass
Solve ==
    /\ pc \in {"ready", "done"}
    /\ result # "TypeError"
    /\ solves < MaxSolves
    /\ solves' = solves + 1
    /\ previous' = result
    /\ result' = "none"
    /\ assignment' = EmptyMap
    /\ stack' = <<>>
    /\ IF variant = "fc"
       THEN pc' = "call" /\ queue' = queue
       ELSE pc' = "ac3" /\ queue' = ArcsFrom(1)
    /\ UNCHANGED <<structure, file, variant, variables, overlaps, words,
                   domains, variableDegrees>>

\* one turn of the loop of ac3: pop an arc and revise it
Ac3Revise ==
    /\ pc = "ac3"
    /\ queue # <<>>
    /\ LET x == queue[Len(queue)][1]
           y == queue[Len(queue)][2]
           rest == SubSeq(queue, 1, Len(queue) - 1)
           toRemove == Unsupported(x, y)
           domainX == DeleteAll(domains[x], toRemove)
       IN  /\ domains' = [domains EXCEPT ![x] = domainX]
           /\ IF toRemove = {}
              THEN /\ queue' = rest
                   /\ UNCHANGED <<pc, result>>
              ELSE IF domainX = <<>>
                   THEN /\ pc' = "done"
                        /\ result' = "null"
                        /\ queue' = rest
                   ELSE /\ queue' = rest \o Requeue(x, y)
                        /\ UNCHANGED <<pc, result>>
    /\ UNCHANGED <<structure, file, variant, variables, overlaps, words,
                   variableDegrees, assignment, stack, previous, solves>>

\* the queue of ac3 is empty: ac3 returns true and solve calls backtrack
Ac3Done ==
    /\ pc = "ac3"
    /\ queue = <<>>
    /\ pc' = "call"
    /\ UNCHANGED <<structure, file, variant, variables, overlaps, words,
                   domains, variableDegrees, assignment, stack, queue, result,
                   previous, solves>>

\* entry of backtrack(assignment): return the complete assignment (through
\* every caller), or choose a variable and order its values
Backtrack ==
    /\ pc = "call"
    /\ IF AssignmentComplete(assignment)
       THEN /\ pc' = "done"
            /\ result' = "solution"
            /\ stack' = <<>>
       ELSE IF SelectionThrows(assignment)
            THEN /\ pc' = "done"
                 /\ result' = "TypeError"
                 /\ stack' = <<>>
            ELSE LET x == SelectUnassignedVariable(assignment)
                 IN  /\ pc' = "loop"
                     /\ result' = result
                     /\ stack' = Append(stack,
                            [variable |-> x,
                             values |-> OrderDomainValues(x, assignment, Domain(x)),
                             idx |-> 1,
                             saved |-> DomainStore])
    /\ UNCHANGED <<structure, file, variant, variables, overlaps, words,
                   domains, variableDegrees, assignment, queue, previous, solves>>

\* one turn of the loop of backtrack: bind the next value, check it, prune,
\* and either recurse or unbind it again. `saved` remembers the domain store
\* as it was when the attempt began.
TryValue ==
    /\ pc = "loop"
    /\ stack # <<>>
    /\ stack[Len(stack)].idx <= Len(stack[Len(stack)].values)
    /\ LET top == stack[Len(stack)]
           x == top.variable
           value == top.values[top.idx]
           asg == (x :> value) @@ assignment
           fc == ForwardCheck(x, value, asg)
       IN  IF Consistent(x, asg)
           THEN /\ words' = fc.words
                /\ IF fc.ok
                   THEN /\ assignment' = asg
                        /\ pc' = "call"
                        /\ stack' = [stack EXCEPT ![Len(stack)].saved = DomainStore]
                   ELSE /\ assignment' = assignment
                        /\ pc' = "loop"
                        /\ stack' = [stack EXCEPT ![Len(stack)].idx = @ + 1]
           ELSE /\ words' = words
                /\ assignment' = assignment
                /\ pc' = "loop"
                /\ stack' = [stack EXCEPT ![Len(stack)].idx = @ + 1]
    /\ UNCHANGED <<structure, file, variant, variables, overlaps, domains,
                   variableDegrees, queue, result, previous, solves>>

\* the loop of backtrack ran out of values: return null; the caller unbinds
\* its own variable and goes on with its next value
ReturnNull ==
    /\ pc = "loop"
    /\ stack # <<>>
    /\ stack[Len(stack)].idx > Len(stack[Len(stack)].values)
    /\ IF Len(stack) = 1
       THEN /\ stack' = <<>>
            /\ pc' = "done"
            /\ result' = "null"
            /\ assignment' = assignment
       ELSE LET caller == stack[Len(stack) - 1]
            IN  /\ stack' = [SubSeq(stack, 1, Len(stack) - 1)
                                EXCEPT ![Len(stack) - 1].idx = @ + 1]
                /\ pc' = "loop"
                /\ result' = result
                /\ assignment' = [v \in DOMAIN assignment \ {caller.variable}
                                    |-> assignment[v]]
    /\ UNCHANGED <<structure, file, variant, variables, overlaps, words,
                   domains, variableDegrees, queue, previous, solves>>

Next ==
    \/ Construct
    \/ Solve
    \/ Ac3Revise
    \/ Ac3Done
    \/ Backtrack
    \/ TryValue
    \/ ReturnNull

Spec == Init /\ [][Next]_vars

\* solve() is one synchronous call: a step that can be taken is taken
FairSpec == Spec /\ WF_vars(Next)

(***************************************************************************)
(* What the claims speak about                                             *)
(***************************************************************************)
\* the dictionary: the words of the file, upper-cased, each once
Dictionary == { ToUpperCase(file[k]) : k \in DOMAIN file }

Returned == pc = "done" /\ result = "solution"

Overlapping == { p \in DOMAIN overlaps : overlaps[p] # Null }

\* f gives every variable a word of its length, no word twice, and agrees
\* on every recorded overlap
ValidFilling(f) ==
    /\ DOMAIN f = DOMAIN variables
    /\ \A v \in DOMAIN f : Len(f[v]) = variables[v].length
    /\ \A a, b \in DOMAIN f : a # b => f[a] # f[b]
    /\ \A p \in Overlapping :
          CharAt(f[p[1]], overlaps[p][1]) = CharAt(f[p[2]], overlaps[p][2])

SolutionExists == \E f \in [DOMAIN variables -> Dictionary] : ValidFilling(f)

\* C1: the first solve() returns no-solution only if no valid filling from
\* the dictionary exists, and returns an assignment whenever one exists.
C1_SolveComplete ==
    (pc = "done" /\ solves = 1) =>
        /\ result = "null" => ~SolutionExists
        /\ SolutionExists => result = "solution"

\* C2: in a returned assignment, two variables with a recorded overlap
\* (i, j) hold words with the same letter at i and at j.
C2_OverlapsAgree ==
    Returned =>
        \A p \in Overlapping :
            (p[1] \in DOMAIN assignment /\ p[2] \in DOMAIN assignment) =>
                CharAt(assignment[p[1]], overlaps[p][1])
                    = CharAt(assignment[p[2]], overlaps[p][2])

C2_Witness ==
    /\ Returned
    /\ \E p \in Overlapping :
          /\ p[1] \in DOMAIN assignment
          /\ p[2] \in DOMAIN assignment
          /\ overlaps[p][1] # overlaps[p][2]

\* C3: in a returned assignment no word is bound to two distinct
\* variables, overlapping or not.
C3_WordsUnique ==
    Returned =>
        \A a, b \in DOMAIN assignment : a # b => assignment[a] # assignment[b]

C3_Witness ==
    /\ Returned
    /\ \E a, b \in DOMAIN assignment : a # b /\ overlaps[<<a, b>>] = Null

\* C4: a returned assignment binds every variable of the grid, each to a
\* word of the variable's length.
C4_AllBoundWithLength ==
    Returned =>
        /\ DOMAIN assignment = DOMAIN variables
        /\ \A v \in DOMAIN assignment :
              Len(assignment[v]) = variables[v].length

C4_Witness ==
    /\ Returned
    /\ \E v, u \in DOMAIN assignment : variables[v].length # variables[u].length

\* C5: when an attempt variable := value is undone - at once, because the
\* value is inconsistent or forward checking hits an empty domain, or
\* later, because the recursive search below it returns null - every
\* domain equals what it was when the attempt began.
C5_BacktrackRestores ==
    [][ /\ (pc = "loop" /\ pc' = "loop" /\ Len(stack') = Len(stack))
            => DomainStore' = DomainStore
        /\ (pc = "loop" /\ pc' = "loop" /\ Len(stack') = Len(stack) - 1)
            => DomainStore' = stack[Len(stack) - 1].saved ]_vars

\* C6: solve() terminates: the run reaches the end of solve() with a
\* complete assignment or with no-solution.
C6_SolveTerminates ==
    <>(pc = "done" /\ result \in {"solution", "null"})

\* C7: when no valid filling exists, solve() returns no-solution; it does
\* not raise an error.
C7_UnsatisfiableIsNull ==
    (pc = "done" /\ ~SolutionExists) => result = "null"

\* C8: a second solve() on a solver whose first solve() returned a solution
\* returns a valid complete assignment again.
C8_SecondSolveSucceeds ==
    (pc = "done" /\ previous = "solution") =>
        (result = "solution" /\ ValidFilling(assignment))

\* C9: in every state every word of a variable's domain has the variable's
\* length.
C9_DomainWordLengths ==
    \A v \in DOMAIN domains :
        \A word \in SeqToSet(Domain(v)) : Len(word) = variables[v].length

\* C10: right after construction the domain of each variable holds exactly
\* the dictionary words of the variable's length, each once.
C10_InitialDomains ==
    (pc = "ready" /\ solves = 0) =>
        \A v \in DOMAIN variables :
            /\ v \in DOMAIN domains
            /\ SeqToSet(Domain(v))
                 = { word \in Dictionary : Len(word) = variables[v].length }
            /\ Cardinality(SeqToSet(Domain(v))) = Len(Domain(v))

\* the domain of v as the constructor built it
InitialDomain(v) ==
    IF variant = "fc" THEN LoadWords(file)[variables[v].length]
    ELSE DomainsAC3(variables, WordList(file))[v]

\* C11: no revise step of the arc-consistency pass and no forward-checking
\* step adds a word to a domain: after the step every domain is a subset of
\* what it was before the step.
C11_PropagationShrinks ==
    [][ (pc \in {"ac3", "loop"}) =>
            (\A v \in DOMAIN domains :
                SeqToSet(DomainStore'[v]) \subseteq SeqToSet(DomainStore[v])) ]_vars

C11_Witness ==
    /\ pc \in {"ac3", "loop"}
    /\ \E v \in DOMAIN domains :
          /\ Len(Domain(v)) < Len(InitialDomain(v))
          /\ SeqToSet(Domain(v)) \subseteq SeqToSet(InitialDomain(v))

(***************************************************************************)
(* The cross-shaped grid with the words CAT and ARM                        *)
(***************************************************************************)
\* one DOWN and one ACROSS slot of length 3 that share their middle cell
Cross ==
    << <<F, T, F>>,
       <<T, T, T>>,
       <<F, T, F>> >>

CrossWords ==
    { <<"C", "A", "T">>, <<"A", "R", "M">>,
      <<"c", "a", "t">>, <<"a", "r", "m">> }

\* the words files, in any order, case and repetition, that hold exactly
\* the words CAT and ARM
CrossFiles ==
    { f \in SeqsUpTo(CrossWords, MaxWords) :
        { ToUpperCase(f[k]) : k \in DOMAIN f }
            = { <<"C", "A", "T">>, <<"A", "R", "M">> } }

CrossInit ==
    /\ structure = Cross
    /\ file \in CrossFiles
    /\ variant \in Variants
    /\ pc = "new"
    /\ variables = <<>>
    /\ overlaps = EmptyMap
    /\ words = EmptyMap
    /\ domains = EmptyMap
    /\ variableDegrees = EmptyMap
    /\ assignment = EmptyMap
    /\ stack = <<>>
    /\ queue = <<>>
    /\ result = "none"
    /\ previous = "none"
    /\ solves = 0

CrossSpec == CrossInit /\ [][Next]_vars

\* C12 as stated: on the cross-shaped grid with the dictionary {CAT, ARM},
\* solve() returns an assignment that gives CAT and ARM to the two
\* variables and agrees on the shared cell.
C12_CrossSolved ==
    pc = "done" =>
        /\ result = "solution"
        /\ ValidFilling(assignment)
        /\ { assignment[v] : v \in DOMAIN assignment }
             = { <<"C", "A", "T">>, <<"A", "R", "M">> }

\* C12 as amended: on the cross-shaped grid with the dictionary {CAT, ARM},
\* solve() returns no-solution: the shared cell is the middle letter of both
\* slots, and the middle letters of CAT and ARM differ.
C12_CrossUnsolvable ==
    pc = "done" => (result = "null" /\ ~SolutionExists)

C12_Witness ==
    /\ pc = "done"
    /\ result = "null"
    /\ Len(variables) = 2
    /\ overlaps[<<1, 2>>] = <<1, 1>>
    /\ Dictionary = { <<"C", "A", "T">>, <<"A", "R", "M">> }

\* C13: a forward-checking step for the attempt X := value changes only the
\* domains of X's unassigned neighbors: the domain of X, of every assigned
\* variable and of every variable without an overlap with X stays as it was.
C13_ForwardCheckFrame ==
    [][ (pc = "loop" /\ stack # <<>>) =>
            LET x == stack[Len(stack)].variable
            IN  \A v \in DOMAIN domains :
                    (\/ v = x
                     \/ v \in DOMAIN assignment
                     \/ overlaps[<<x, v>>] = Null)
                    => DomainStore'[v] = DomainStore[v] ]_vars

\* the forward-checking solver has just bound its chosen variable and is
\* about to call backtrack again: forwardCheck returned true
ForwardCheckSucceeded == variant = "fc" /\ pc = "call" /\ stack # <<>>

\* C14: when forward checking for X := value reports success, every
\* unassigned neighbor of X has a non-empty domain whose words all agree
\* with value at the recorded overlap indices; a neighbor left with an empty
\* domain never goes along with a recursive call.
C14_ForwardCheckSound ==
    ForwardCheckSucceeded =>
        LET x == stack[Len(stack)].variable
        IN  \A n \in SeqToSet(Neighbors(x)) \ DOMAIN assignment :
                /\ Domain(n) # <<>>
                /\ \A word \in SeqToSet(Domain(n)) :
                      CharAt(assignment[x], overlaps[<<x, n>>][1])
                          = CharAt(word, overlaps[<<x, n>>][2])

\* every word of every domain has a partner in each neighbor's domain
ArcConsistent ==
    \A x \in DOMAIN variables :
        \A y \in SeqToSet(Neighbors(x)) :
            \A valX \in SeqToSet(domains[x]) :
                \E valY \in SeqToSet(domains[y]) :
                    CharAt(valX, overlaps[<<x, y>>][1])
                        = CharAt(valY, overlaps[<<x, y>>][2])

\* C15: when ac3 returns true every arc is consistent, and a revision that
\* empties a domain makes ac3 return false at once.
C15_Ac3ArcConsistent ==
    [][ (pc = "ac3") =>
            /\ (pc' = "call") => ArcConsistent'
            /\ (\E v \in DOMAIN domains :
                    domains[v] # <<>> /\ domains'[v] = <<>>)
               => (pc' = "done" /\ result' = "null") ]_vars

C15_Witness ==
    /\ variant = "ac3"
    /\ pc = "call"
    /\ stack = <<>>
    /\ ArcConsistent
    /\ \E v \in DOMAIN domains : domains[v] # InitialDomain(v)
    /\ \E v \in DOMAIN variables : Len(Neighbors(v)) > 1

\* the valid fillings that take every word from the current domains
FillingsOverDomains ==
    { f \in [DOMAIN variables -> Dictionary] :
        /\ \A v \in DOMAIN variables : f[v] \in SeqToSet(domains[v])
        /\ ValidFilling(f) }

\* C16: a revision of the arc-consistency pass removes no word that takes
\* part in a valid filling over the domains, and a pass over domains that
\* hold a valid filling does not report failure.
C16_Ac3KeepsSolutions ==
    [][ (pc = "ac3") =>
            /\ \A f \in FillingsOverDomains :
                  \A v \in DOMAIN variables : f[v] \in SeqToSet(domains'[v])
            /\ (FillingsOverDomains # {}) => (pc' # "done") ]_vars

C16_Witness ==
    /\ variant = "ac3"
    /\ pc = "call"
    /\ stack = <<>>
    /\ FillingsOverDomains # {}
    /\ \E v \in DOMAIN domains : domains[v] # InitialDomain(v)

(***************************************************************************)
(* The arc-consistency pass with the arcs taken in any order               *)
(***************************************************************************)
\* the loop of ac3 as the code runs it, from the work list q and the
\* domains d: what it returns and the domains it leaves
RECURSIVE Ac3Lifo(_, _)
Ac3Lifo(q, d) ==
    IF q = <<>> THEN [ok |-> TRUE, domains |-> d]
    ELSE LET x == q[Len(q)][1]
             y == q[Len(q)][2]
             rest == SubSeq(q, 1, Len(q) - 1)
             ov == overlaps[<<x, y>>]
             toRemove ==
                 IF ov = Null THEN {}
                 ELSE { valX \in SeqToSet(d[x]) :
                          ~\E valY \in SeqToSet(d[y]) :
                              CharAt(valX, ov[1]) = CharAt(valY, ov[2]) }
             domainX == DeleteAll(d[x], toRemove)
             revised == [d EXCEPT ![x] = domainX]
         IN  IF toRemove = {} THEN Ac3Lifo(rest, d)
             ELSE IF domainX = <<>> THEN [ok |-> FALSE, domains |-> revised]
             ELSE Ac3Lifo(rest \o Requeue(x, y), revised)

\* one turn of the loop of ac3 that takes the k-th arc of the work list
\* instead of the last one
Ac3ReviseAt(k) ==
    /\ pc = "ac3"
    /\ k \in DOMAIN queue
    /\ LET x == queue[k][1]
           y == queue[k][2]
           rest == SubSeq(queue, 1, k - 1) \o SubSeq(queue, k + 1, Len(queue))
           toRemove == Unsupported(x, y)
           domainX == DeleteAll(domains[x], toRemove)
       IN  /\ domains' = [domains EXCEPT ![x] = domainX]
           /\ IF toRemove = {}
              THEN /\ queue' = rest
                   /\ UNCHANGED <<pc, result>>
              ELSE IF domainX = <<>>
                   THEN /\ pc' = "done"
                        /\ result' = "null"
                        /\ queue' = rest
                   ELSE /\ queue' = rest \o Requeue(x, y)
                        /\ UNCHANGED <<pc, result>>
    /\ UNCHANGED <<structure, file, variant, variables, overlaps, words,
                   variableDegrees, assignment, stack, previous, solves>>

Ac3ReviseAny == \E k \in DOMAIN queue : Ac3ReviseAt(k)

\* the grids whose work list stays short enough to take it in every order:
\* all but the full block with its eight arcs
AnyOrderStructures == Structures \ { << <<T, T>>, <<T, T>> >> }

AnyOrderInit == Init /\ variant = "ac3" /\ structure \in AnyOrderStructures

AnyOrderNext ==
    \/ Construct
    \/ Solve
    \/ Ac3ReviseAny
    \/ Ac3Done
    \/ Backtrack
    \/ TryValue
    \/ ReturnNull

AnyOrderSpec == AnyOrderInit /\ [][AnyOrderNext]_vars

\* what a run of the pass is compared by: success or failure and, on
\* success, the domains it leaves
Outcome(r) == IF r.ok THEN r ELSE [ok |-> FALSE]

\* C17: whichever arc of the work list is revised next, the pass as the
\* code runs it (last arc first) ends, from the state after that revision,
\* with the same success or failure and on success the same domains as it
\* does from the state before; a revision that reports failure is one after
\* which the code's order fails as well.
C17_Ac3OrderIndependent ==
    [][ (pc = "ac3" /\ queue # <<>>) =>
            /\ (pc' = "ac3") =>
                  Outcome(Ac3Lifo(queue', domains'))
                      = Outcome(Ac3Lifo(queue, domains))
            /\ (pc' = "done") => ~Ac3Lifo(queue, domains).ok ]_vars

C17_Witness ==
    /\ variant = "ac3"
    /\ pc = "call"
    /\ stack = <<>>
    /\ solves = 1
    /\ \E v \in DOMAIN domains : domains[v] # InitialDomain(v)
    /\ domains = Ac3Lifo(ArcsFrom(1), DomainsAC3(variables, words)).domains
    /\ \E v \in DOMAIN variables : Len(Neighbors(v)) > 1

\* C18: at every entry into backtrack the partial assignment is consistent:
\* it binds variables of the grid, no word to two variables, every word of
\* its variable's length, and two bound variables with a recorded overlap
\* agree on it.
C18_EntryConsistent ==
    pc = "call" =>
        /\ DOMAIN assignment \subseteq DOMAIN variables
        /\ \A a, b \in DOMAIN assignment : a # b => assignment[a] # assignment[b]
        /\ \A v \in DOMAIN assignment : Len(assignment[v]) = variables[v].length
        /\ \A p \in Overlapping :
              (p[1] \in DOMAIN assignment /\ p[2] \in DOMAIN assignment) =>
                  CharAt(assignment[p[1]], overlaps[p][1])
                      = CharAt(assignment[p[2]], overlaps[p][2])

C18_Witness ==
    /\ pc = "call"
    /\ ~AssignmentComplete(assignment)
    /\ \E p \in Overlapping :
          p[1] \in DOMAIN assignment /\ p[2] \in DOMAIN assignment

(***************************************************************************)
(* A grid whose slots differ in their number of neighbors                  *)
(***************************************************************************)
MaxHookWords == 4

\* a row of three cells with a cell hanging from each end: the ACROSS slot
\* of length 3 crosses two DOWN slots of length 2, which do not meet
Hook == << <<T, T, T>>, <<T, F, T>> >>

HookWords ==
    { <<"A", "A">>, <<"C", "A">>, <<"A", "B", "A">>, <<"C", "B", "A">> }

HookFiles == SeqsUpTo(HookWords, MaxHookWords)

HookInit ==
    /\ structure = Hook
    /\ file \in HookFiles
    /\ variant \in Variants
    /\ pc = "new"
    /\ variables = <<>>
    /\ overlaps = EmptyMap
    /\ words = EmptyMap
    /\ domains = EmptyMap
    /\ variableDegrees = EmptyMap
    /\ assignment = EmptyMap
    /\ stack = <<>>
    /\ queue = <<>>
    /\ result = "none"
    /\ previous = "none"
    /\ solves = 0

HookSpec == HookInit /\ [][Next]_vars

\* backtrack has just chosen its variable and ordered its values
JustSelected == pc = "loop" /\ stack # <<>> /\ stack[Len(stack)].idx = 1

Unassigned == DOMAIN variables \ DOMAIN assignment

\* the number of neighbors of v
NeighborCount(v) == Cardinality({ u \in DOMAIN variables :
                                    u # v /\ overlaps[<<v, u>>] # Null })

\* the number of neighbors of v without a binding
UnassignedNeighborCount(v) ==
    Cardinality({ u \in Unassigned : u # v /\ overlaps[<<v, u>>] # Null })

\* C19 as stated: the variable chosen is unassigned, no unassigned variable
\* has a smaller domain, and none of those with a domain of the same size
\* has more neighbors.
C19_MostNeighbors ==
    JustSelected =>
        LET x == stack[Len(stack)].variable
        IN  /\ x \in Unassigned
            /\ \A u \in Unassigned :
                  /\ Len(Domain(x)) <= Len(Domain(u))
                  /\ Len(Domain(u)) = Len(Domain(x))
                        => NeighborCount(x) >= NeighborCount(u)

\* C19 as amended: the variable chosen is unassigned, no unassigned variable
\* has a smaller domain, and none of those with a domain of the same size
\* has a higher degree, the degree being the number of all neighbors in the
\* forward-checking solver and the number of unassigned neighbors in the
\* arc-consistency solver.
C19_HighestDegree ==
    JustSelected =>
        LET x == stack[Len(stack)].variable
            degree(v) == IF variant = "fc" THEN NeighborCount(v)
                         ELSE UnassignedNeighborCount(v)
        IN  /\ x \in Unassigned
            /\ \A u \in Unassigned :
                  /\ Len(Domain(x)) <= Len(Domain(u))
                  /\ Len(Domain(u)) = Len(Domain(x)) => degree(x) >= degree(u)

C19_Witness ==
    /\ JustSelected
    /\ LET x == stack[Len(stack)].variable
       IN  \E u \in Unassigned :
               /\ u < x
               /\ Len(Domain(u)) = Len(Domain(x))
               /\ NeighborCount(u) < NeighborCount(x)

\* the number of words the binding x := value would eliminate: over the
\* unassigned neighbors n of x, the words of n's domain whose letter at the
\* overlap differs from the letter of value
EliminatedBy(x, value) ==
    LET open == { n \in Unassigned : n # x /\ overlaps[<<x, n>>] # Null }
        entries == UNION { {n} \X DOMAIN Domain(n) : n \in open }
    IN  Cardinality({ p \in entries :
                        CharAt(value, overlaps[<<x, p[1]>>][1])
                          # CharAt(Domain(p[1])[p[2]], overlaps[<<x, p[1]>>][2]) })

\* C20: the values backtrack is about to try are the words of the chosen
\* variable's domain, each once, in ascending order of the number of words
\* they would eliminate from the domains of the unassigned neighbors.
C20_LeastConstrainingFirst ==
    JustSelected =>
        LET x == stack[Len(stack)].variable
            values == stack[Len(stack)].values
        IN  /\ Len(values) = Len(Domain(x))
            /\ SeqToSet(values) = SeqToSet(Domain(x))
            /\ \A a, b \in DOMAIN values : a # b => values[a] # values[b]
            /\ \A a, b \in DOMAIN values :
                  a < b => EliminatedBy(x, values[a]) <= EliminatedBy(x, values[b])

C20_Witness ==
    /\ JustSelected
    /\ LET x == stack[Len(stack)].variable
           values == stack[Len(stack)].values
       IN  /\ values # Domain(x)
           /\ Len(UnassignedNeighbors(x, assignment)) > 1
           /\ \E a, b \in DOMAIN values :
                 EliminatedBy(x, values[a]) < EliminatedBy(x, values[b])

\* C21: consistent accepts the binding of a word to a variable exactly when
\* the word has the variable's length, no other bound variable holds the
\* word, and every bound variable that shares a cell with the variable has
\* the same letter at the overlap indices. An accepted binding shows in the
\* step: backtrack goes on to forward checking (which recurses or prunes);
\* after a rejected one it only moves to the next value.
C21_ConsistentExactly ==
    [][ (pc = "loop" /\ stack # <<>>
            /\ stack[Len(stack)].idx <= Len(stack[Len(stack)].values)) =>
            LET x == stack[Len(stack)].variable
                value == stack[Len(stack)].values[stack[Len(stack)].idx]
                accepted == pc' = "call" \/ words' # words
            IN  accepted <=>
                    /\ Len(value) = variables[x].length
                    /\ \A v \in DOMAIN assignment \ {x} : assignment[v] # value
                    /\ \A n \in DOMAIN assignment \ {x} :
                          overlaps[<<x, n>>] # Null =>
                              CharAt(value, overlaps[<<x, n>>][1])
                                  = CharAt(assignment[n], overlaps[<<x, n>>][2]) ]_vars

\* a value of the right length that no variable holds has just been
\* rejected for its letter at an overlap with a bound neighbor
C21_Witness ==
    /\ pc = "loop"
    /\ stack # <<>>
    /\ stack[Len(stack)].idx > 1
    /\ LET x == stack[Len(stack)].variable
           value == stack[Len(stack)].values[stack[Len(stack)].idx - 1]
       IN  /\ x \notin DOMAIN assignment
           /\ Len(value) = variables[x].length
           /\ \A v \in DOMAIN assignment : assignment[v] # value
           /\ \E n \in DOMAIN assignment :
                 /\ overlaps[<<x, n>>] # Null
                 /\ CharAt(value, overlaps[<<x, n>>][1])
                      # CharAt(assignment[n], overlaps[<<x, n>>][2])

(***************************************************************************)
(* The grid model over every grid of a few rows and columns                *)
(***************************************************************************)
MaxSide == 3

\* every rectangular grid of fillable flags with up to MaxSide rows and
\* MaxSide columns
Grids ==
    UNION { [1..h -> [1..w -> BOOLEAN]] : h \in 1..MaxSide, w \in 1..MaxSide }

GridInit ==
    /\ structure \in Grids
    /\ file = <<>>
    /\ variant \in Variants
    /\ pc = "new"
    /\ variables = <<>>
    /\ overlaps = EmptyMap
    /\ words = EmptyMap
    /\ domains = EmptyMap
    /\ variableDegrees = EmptyMap
    /\ assignment = EmptyMap
    /\ stack = <<>>
    /\ queue = <<>>
    /\ result = "none"
    /\ previous = "none"
    /\ solves = 0

\* the grid model is built and nothing is solved
GridSpec == GridInit /\ [][Construct]_vars

\* the cell (i, j) lies in the grid and is fillable
Open(s, i, j) ==
    /\ i \in 0..(Height(s) - 1)
    /\ j \in 0..(Width(s) - 1)
    /\ s[i + 1][j + 1]

\* the runs of at least two fillable cells, downwards or to the right from
\* (i, j), that cannot be extended at either end
MaximalRuns(s) ==
    LET Step(d) == IF d = "down" THEN <<1, 0>> ELSE <<0, 1>>
        IsRun(i, j, d, n) ==
            /\ \A k \in 0..(n - 1) :
                  Open(s, i + k * Step(d)[1], j + k * Step(d)[2])
            /\ ~Open(s, i - Step(d)[1], j - Step(d)[2])
            /\ ~Open(s, i + n * Step(d)[1], j + n * Step(d)[2])
        places == (0..(Height(s) - 1)) \X (0..(Width(s) - 1))
                      \X {"down", "across"} \X (2..(Height(s) + Width(s)))
    IN  { Variable(q[1], q[2], q[3], q[4]) :
            q \in { r \in places : IsRun(r[1], r[2], r[3], r[4]) } }

\* C22: the variables of the grid model are exactly the maximal ACROSS and
\* DOWN runs of at least two fillable cells, each once, and the cells of a
\* variable are fillable cells of the grid.
C22_VariablesAreMaximalRuns ==
    pc = "ready" =>
        /\ SeqToSet(variables) = MaximalRuns(structure)
        /\ Cardinality(SeqToSet(variables)) = Len(variables)
        /\ \A v \in DOMAIN variables :
              \A k \in 0..(variables[v].length - 1) :
                  Open(structure, Cell(variables[v], k)[1],
                                  Cell(variables[v], k)[2])

\* a grid with a DOWN and an ACROSS variable, one of them of length 3, and
\* a fillable cell that is a run of length 1 in both directions
C22_Witness ==
    /\ pc = "ready"
    /\ \E a, b \in DOMAIN variables :
          /\ variables[a].direction = "down"
          /\ variables[b].direction = "across"
          /\ variables[a].length = 3
    /\ \E i \in 0..(Height(structure) - 1), j \in 0..(Width(structure) - 1) :
          /\ Open(structure, i, j)
          /\ \A v \in DOMAIN variables :
                \A k \in 0..(variables[v].length - 1) :
                    Cell(variables[v], k) # <<i, j>>

\* the index pairs (i, j) at which a's i-th cell is b's j-th cell
SharedCells(a, b) ==
    { p \in (0..(variables[a].length - 1)) \X (0..(variables[b].length - 1)) :
        Cell(variables[a], p[1]) = Cell(variables[b], p[2]) }

\* C23: for distinct variables A and B the overlap entry of (A, B) is (i, j)
\* exactly when A's i-th cell is B's j-th cell, the entry of (B, A) is then
\* (j, i), the entry is 'no overlap' exactly when they share no cell, and the
\* neighbors of A are exactly the variables with an overlap entry.
C23_OverlapsSymmetric ==
    pc = "ready" =>
        /\ DOMAIN overlaps =
              { q \in (DOMAIN variables) \X (DOMAIN variables) : q[1] # q[2] }
        /\ \A a, b \in DOMAIN variables :
              a # b =>
                  /\ overlaps[<<a, b>>] = Null <=> SharedCells(a, b) = {}
                  /\ \A p \in (0..(variables[a].length - 1))
                                  \X (0..(variables[b].length - 1)) :
                        overlaps[<<a, b>>] = p <=> p \in SharedCells(a, b)
                  /\ overlaps[<<a, b>>] # Null =>
                        overlaps[<<b, a>>] =
                            <<overlaps[<<a, b>>][2], overlaps[<<a, b>>][1]>>
        /\ \A a \in DOMAIN variables :
              /\ SeqToSet(Neighbors(a)) =
                    { b \in DOMAIN variables \ {a} : SharedCells(a, b) # {} }
              /\ Cardinality(SeqToSet(Neighbors(a))) = Len(Neighbors(a))

\* a grid with two variables crossing at different indices and two
\* variables that share no cell
C23_Witness ==
    /\ pc = "ready"
    /\ \E a, b \in DOMAIN variables :
          /\ a # b
          /\ overlaps[<<a, b>>] # Null
          /\ overlaps[<<a, b>>][1] # overlaps[<<a, b>>][2]
    /\ \E a, b \in DOMAIN variables :
          a # b /\ overlaps[<<a, b>>] = Null

====
